---- MODULE Spec2Model ----
(***************************************************************************)
(* Model of src/app.js: the catalog browser's state codec (URL <-> filter  *)
(* state), schema validator, dataset loader, filter/sort engine and the    *)
(* control -> state -> URL -> render loop with its debounced inputs.       *)
(*                                                                         *)
(* JavaScript strings are sequences of one-character strings, so that      *)
(* split, join, trim, toLowerCase, includes, parseFloat and Number are     *)
(* computed character by character. The sort mode is kept as an atomic     *)
(* string because the code only compares it for equality.                  *)
(***************************************************************************)
EXTENDS Integers, Sequences, FiniteSets, TLC

VARIABLES
    pc,          \* position of init() / loadData()
    INVENTORY,   \* let INVENTORY (app.js:51)
    State,       \* let STATE (app.js:257); STATE is a reserved word of TLA+
    controls,    \* values held by the six form controls
    options,     \* <option> values of #categoryFilter, in DOM order
    url,         \* location.search as the list of its parameters
    grid,        \* what renderGrid painted last; <<>> before any render
    errors,      \* messages handed to showError, in order
    fetches,     \* number of fetch() calls made
    response,    \* what the fetch of data/inventory.json will produce
    bound,       \* the control handlers are attached
    ctrlFromState, \* setControlsFromState has run in init (history variable)
    timers,      \* live timers of the browser: id -> remaining milliseconds
    t,           \* the timer handle captured by the debounce closure
    lastEvent,   \* the last step taken
    ranNow,      \* the last step executed run()
    sinceReset,  \* resetControls ran and no control was changed since
    burstRuns,   \* debounced executions of run() in the current or last burst
    burstLen,    \* input events of that burst
    quiet,       \* milliseconds since the last debounced input event
    arg,         \* input of the pure function being applied
    res,         \* results computed from arg, in order
    step         \* how far the pure function has been applied

appVars == <<pc, INVENTORY, State, controls, options, url, grid, errors, fetches,
             response, bound, ctrlFromState, timers, t, lastEvent, ranNow,
             sinceReset, burstRuns, burstLen, quiet>>
pureVars == <<arg, res, step>>
vars == <<appVars, pureVars>>

(***************************************************************************)
(* Strings                                                                 *)
(***************************************************************************)
Digits == {"0", "1", "2", "3", "4", "5", "6", "7", "8", "9"}

DigitVal(c) ==
    CASE c = "0" -> 0 [] c = "1" -> 1 [] c = "2" -> 2 [] c = "3" -> 3
      [] c = "4" -> 4 [] c = "5" -> 5 [] c = "6" -> 6 [] c = "7" -> 7
      [] c = "8" -> 8 [] c = "9" -> 9

IsSpace(c) == c = " "

\* String.prototype.toLowerCase on the model's alphabet.
LowerChar(c) ==
    CASE c = "A" -> "a" [] c = "B" -> "b" [] c = "C" -> "c" [] OTHER -> c

toLowerCase(s) == [i \in 1..Len(s) |-> LowerChar(s[i])]

RECURSIVE trimStart(_)
trimStart(s) == IF s # <<>> /\ IsSpace(Head(s)) THEN trimStart(Tail(s)) ELSE s

RECURSIVE trimEnd(_)
trimEnd(s) ==
    IF s # <<>> /\ IsSpace(s[Len(s)]) THEN trimEnd(SubSeq(s, 1, Len(s) - 1)) ELSE s

trim(s) == trimEnd(trimStart(s))

\* String.prototype.includes: q occurs in s as a substring.
includes(s, q) ==
    \E i \in 0..(Len(s) - Len(q)) : SubSeq(s, i + 1, i + Len(q)) = q

\* String.prototype.split(sep) for a one-character separator: scans s and
\* cuts at every sep; cur is the segment being read.
RECURSIVE splitFrom(_, _, _)
splitFrom(s, sep, cur) ==
    IF s = <<>> THEN <<cur>>
    ELSE IF Head(s) = sep THEN <<cur>> \o splitFrom(Tail(s), sep, <<>>)
    ELSE splitFrom(Tail(s), sep, Append(cur, Head(s)))

split(s, sep) == splitFrom(s, sep, <<>>)

\* Array.prototype.join(sep).
RECURSIVE join(_, _)
join(list, sep) ==
    IF list = <<>> THEN <<>>
    ELSE IF Len(list) = 1 THEN list[1]
    ELSE list[1] \o <<sep>> \o join(Tail(list), sep)

\* Array.prototype.filter(Boolean) on a list of strings: drops "".
RECURSIVE filterNonEmpty(_)
filterNonEmpty(list) ==
    IF list = <<>> THEN <<>>
    ELSE IF Head(list) = <<>> THEN filterNonEmpty(Tail(list))
    ELSE <<Head(list)>> \o filterNonEmpty(Tail(list))

\* Numbers read from strings: <<>> is NaN, <<n>> is the number n. The
\* alphabet has digits, letters, comma and space only (no sign, point or
\* exponent), so a numeral is a run of digits.
RECURSIVE digitPrefix(_)
digitPrefix(s) ==
    IF s # <<>> /\ Head(s) \in Digits THEN <<Head(s)>> \o digitPrefix(Tail(s)) ELSE <<>>

RECURSIVE numeral(_, _)
numeral(ds, acc) ==
    IF ds = <<>> THEN acc ELSE numeral(Tail(ds), acc * 10 + DigitVal(Head(ds)))

\* parseFloat: skips leading white space and reads the longest numeric
\* prefix; NaN when there is none.
parseFloat(s) ==
    LET ds == digitPrefix(trimStart(s))
    IN  IF ds = <<>> THEN <<>> ELSE <<numeral(ds, 0)>>

\* Number(s), the coercion isNaN applies to its argument: the whole trimmed
\* string must be a numeral; the empty string is 0.
ToNumber(s) ==
    LET b == trim(s)
    IN  IF b = <<>> THEN <<0>>
        ELSE IF digitPrefix(b) = b THEN <<numeral(b, 0)>>
        ELSE <<>>

isNaN(s) == ToNumber(s) = <<>>

(***************************************************************************)
(* State / URL sync                                                        *)
(***************************************************************************)
defaultState ==
    [q |-> <<>>, categories |-> <<>>, priceMin |-> <<>>, priceMax |-> <<>>,
     inStockOnly |-> FALSE, sort |-> "price_asc"]

\* A query string is the list of its parameters: each name maps to <<>>
\* (absent) or <<value>>. "foo" stands for any parameter the code does not
\* know. The empty query string has every parameter absent.
Params == {"q", "cat", "min", "max", "stock", "sort", "foo"}

EmptyQuery == [k \in Params |-> <<>>]

has(p, k) == p[k] # <<>>
get(p, k) == p[k][1]
set(p, k, v) == [p EXCEPT ![k] = <<v>>]

readStateFromURL(search) ==
    LET p  == search
        s0 == defaultState
        s1 == IF has(p, "q") THEN [s0 EXCEPT !.q = get(p, "q")] ELSE s0
        s2 == IF has(p, "cat")
              THEN [s1 EXCEPT !.categories = filterNonEmpty(split(get(p, "cat"), ","))]
              ELSE s1
        s3 == IF has(p, "min") THEN [s2 EXCEPT !.priceMin = get(p, "min")] ELSE s2
        s4 == IF has(p, "max") THEN [s3 EXCEPT !.priceMax = get(p, "max")] ELSE s3
        s5 == IF has(p, "stock")
              THEN [s4 EXCEPT !.inStockOnly = (get(p, "stock") = <<"1">>)]
              ELSE s4
        s6 == IF has(p, "sort") THEN [s5 EXCEPT !.sort = get(p, "sort")] ELSE s5
    IN  s6

\* The query string syncStateWithURL hands to history.replaceState.
syncStateWithURL(state) ==
    LET p0 == EmptyQuery
        p1 == IF state.q # <<>> THEN set(p0, "q", state.q) ELSE p0
        p2 == IF Len(state.categories) # 0
              THEN set(p1, "cat", join(state.categories, ","))
              ELSE p1
        p3 == IF state.priceMin # <<>> /\ ~isNaN(state.priceMin)
              THEN set(p2, "min", state.priceMin) ELSE p2
        p4 == IF state.priceMax # <<>> /\ ~isNaN(state.priceMax)
              THEN set(p3, "max", state.priceMax) ELSE p3
        p5 == IF state.inStockOnly THEN set(p4, "stock", <<"1">>) ELSE p4
        p6 == IF state.sort # "" /\ state.sort # defaultState.sort
              THEN set(p5, "sort", state.sort) ELSE p5
    IN  p6

(***************************************************************************)
(* JSON values, as res.json() yields them                                  *)
(***************************************************************************)
Undefined == [t |-> "undefined"]
Null == [t |-> "null"]
Num(n) == [t |-> "number", v |-> n]
Str(s) == [t |-> "string", v |-> s]
Bool(b) == [t |-> "boolean", v |-> b]
Arr(a) == [t |-> "array", v |-> a]
Obj(f) == [t |-> "object", v |-> f]

\* The typeof operator: null and arrays are "object".
typeof(x) == IF x.t \in {"null", "array", "object"} THEN "object" ELSE x.t

isArray(x) == x.t = "array"

\* ToBoolean, as the ! operator applies it.
truthy(x) ==
    CASE x.t \in {"undefined", "null"} -> FALSE
      [] x.t = "number" -> x.v # 0
      [] x.t = "string" -> x.v # <<>>
      [] x.t = "boolean" -> x.v
      [] OTHER -> TRUE

\* Reading x.k throws a TypeError when x is null or undefined.
propThrows(x) == x.t \in {"undefined", "null"}

\* The value of x.k for the keys the code reads, when it does not throw: an
\* own property of an object, undefined otherwise.
prop(x, k) == IF x.t = "object" /\ k \in DOMAIN x.v THEN x.v[k] ELSE Undefined

(***************************************************************************)
(* Data loading and validation                                             *)
(***************************************************************************)
\* The ten item checks of validateSchema, in the order of its source lines.
ItemChecks ==
    << <<"id", "string">>, <<"name", "string">>, <<"description", "string">>,
       <<"category", "string">>, <<"price", "number">>, <<"currency", "string">>,
       <<"inStock", "boolean">>, <<"tags", "array">>, <<"image", "string">>,
       <<"createdAt", "string">> >>

\* One check of the loop body: Array.isArray for tags, typeof for the rest.
fieldOk(it, chk) ==
    IF chk[2] = "array" THEN isArray(prop(it, chk[1]))
    ELSE typeof(prop(it, chk[1])) = chk[2]

\* The result of a call: it threw, or it returned value. A message is the
\* tuple of what it names: <<check>> or <<field, index>>; "" is <<>>.
Returned(v) == [threw |-> FALSE, value |-> v]
Threw == [threw |-> TRUE, value |-> <<>>]

\* The body of the for loop for item i (0-based), from check k on.
RECURSIVE checkItem(_, _, _)
checkItem(it, i, k) ==
    IF k > Len(ItemChecks) THEN Returned(<<>>)
    ELSE IF propThrows(it) THEN Threw
    ELSE IF ~fieldOk(it, ItemChecks[k]) THEN Returned(<<ItemChecks[k][1], i>>)
    ELSE checkItem(it, i, k + 1)

\* The for loop over data.items.entries(), from index i on.
RECURSIVE checkItems(_, _)
checkItems(items, i) ==
    IF i >= Len(items) THEN Returned(<<>>)
    ELSE LET r == checkItem(items[i + 1], i, 1)
         IN  IF r.threw \/ r.value # <<>> THEN r ELSE checkItems(items, i + 1)

validateSchema(data) ==
    IF ~truthy(data) \/ typeof(data) # "object" THEN Returned(<<"root">>)
    ELSE IF ~isArray(prop(data, "items")) THEN Returned(<<"items">>)
    ELSE IF ~truthy(prop(data, "meta"))
            \/ typeof(prop(prop(data, "meta"), "lastUpdated")) # "string"
         THEN Returned(<<"meta.lastUpdated">>)
    ELSE checkItems(prop(data, "items").v, 0)

\* The inventory loadData falls back to, and INVENTORY's initial value.
EmptyInventory ==
    Obj([items |-> Arr(<<>>), meta |-> Obj([lastUpdated |-> Str(<<>>)])])

(***************************************************************************)
(* Filtering / sorting                                                     *)
(***************************************************************************)
\* The elements of a list.
Range(seq) == {seq[i] : i \in 1..Len(seq)}

\* Array.prototype.filter: the items of the list that are in kept, the set
\* of the values the predicate holds for, in their order.
filter(items, kept) ==
    LET out[i \in 0..Len(items)] ==
            IF i = 0 THEN <<>>
            ELSE IF items[i] \in kept THEN Append(out[i - 1], items[i])
            ELSE out[i - 1]
    IN  out[Len(items)]

\* Array.prototype.map(c => c.toLowerCase()) into a Set.
lowerSet(list) == {toLowerCase(list[i]) : i \in 1..Len(list)}

\* Sign of a number.
sign(n) == IF n < 0 THEN 0 - 1 ELSE IF n > 0 THEN 1 ELSE 0

\* String.prototype.localeCompare in the default collation, on the model's
\* alphabet: white space and punctuation before digits before letters,
\* letters compared without case first, and lower case before upper case
\* when nothing else tells two strings apart.
primary(c) ==
    CASE c = " " -> 0 [] c = "," -> 1
      [] c \in Digits -> 2 + DigitVal(c)
      [] LowerChar(c) = "a" -> 12 [] LowerChar(c) = "b" -> 13
      [] LowerChar(c) = "c" -> 14 [] OTHER -> 15

tertiary(c) == IF LowerChar(c) = c THEN 0 ELSE 1

keyOf(c, level) == IF level = "primary" THEN primary(c) ELSE tertiary(c)

\* Compares a and b by the keys of their characters at one level, at the
\* first place where they differ; a proper prefix comes first.
compareBy(a, b, level) ==
    LET n == IF Len(a) < Len(b) THEN Len(a) ELSE Len(b)
        diffs == {i \in 1..n : keyOf(a[i], level) # keyOf(b[i], level)}
    IN  IF diffs = {} THEN sign(Len(a) - Len(b))
        ELSE LET i == CHOOSE i \in diffs : \A j \in diffs : i <= j
             IN  sign(keyOf(a[i], level) - keyOf(b[i], level))

localeCompare(a, b) ==
    IF compareBy(a, b, "primary") # 0 THEN compareBy(a, b, "primary")
    ELSE compareBy(a, b, "tertiary")

\* new Date(s) for the date strings of the model, which are four-digit
\* years ("2021" is 2021-01-01T00:00Z): the time value is monotone in the
\* year, and any other string is an invalid date (NaN).
dateValue(s) ==
    IF Len(s) = 4 /\ digitPrefix(s) = s THEN <<numeral(s, 0)>> ELSE <<>>

\* The comparator of each case of the switch; 0 when the mode has no case.
\* A comparator that yields NaN counts as 0.
comparator(mode, a, b) ==
    CASE mode = "price_asc" -> sign(prop(a, "price").v - prop(b, "price").v)
      [] mode = "price_desc" -> sign(prop(b, "price").v - prop(a, "price").v)
      [] mode = "name_asc" -> localeCompare(prop(a, "name").v, prop(b, "name").v)
      [] mode = "name_desc" -> localeCompare(prop(b, "name").v, prop(a, "name").v)
      [] mode = "newest" ->
            LET da == dateValue(prop(a, "createdAt").v)
                db == dateValue(prop(b, "createdAt").v)
            IN  IF da = <<>> \/ db = <<>> THEN 0 ELSE sign(db[1] - da[1])
      [] OTHER -> 0

\* Array.prototype.sort is stable: x goes after every element that does not
\* compare greater than it.
RECURSIVE insertSorted(_, _, _)
insertSorted(sorted, x, mode) ==
    IF sorted = <<>> THEN <<x>>
    ELSE IF comparator(mode, Head(sorted), x) > 0 THEN <<x>> \o sorted
    ELSE <<Head(sorted)>> \o insertSorted(Tail(sorted), x, mode)

RECURSIVE sortItems(_, _)
sortItems(items, mode) ==
    IF items = <<>> THEN <<>>
    ELSE insertSorted(sortItems(SubSeq(items, 1, Len(items) - 1), mode),
                      items[Len(items)], mode)

SortModes == {"price_asc", "price_desc", "name_asc", "name_desc", "newest"}

\* A price stage that removes items from the list while walking it, and so
\* never examines the item that follows a removed one.
RECURSIVE spliceBelow(_, _)
spliceBelow(items, min) ==
    IF items = <<>> THEN <<>>
    ELSE IF prop(Head(items), "price").v >= min
         THEN <<Head(items)>> \o spliceBelow(Tail(items), min)
    ELSE IF Len(items) >= 2
         THEN <<items[2]>> \o spliceBelow(Tail(Tail(items)), min)
    ELSE <<>>

byPriceSplicing(items, state) ==
    LET min == parseFloat(state.priceMin)
        max == parseFloat(state.priceMax)
        i3 == IF min # <<>> THEN spliceBelow(items, min[1]) ELSE items
        atMost == {it \in Range(i3) : prop(it, "price").v <= max[1]}
    IN  IF max # <<>> THEN filter(i3, atMost) ELSE i3

\* The price stage of applyFilters (its min and max filters).
byPrice(items, state) ==
    LET min == parseFloat(state.priceMin)
        max == parseFloat(state.priceMax)
        atLeast == {it \in Range(items) : prop(it, "price").v >= min[1]}
        i3 == IF min # <<>> THEN filter(items, atLeast) ELSE items
        atMost == {it \in Range(i3) : prop(it, "price").v <= max[1]}
    IN  IF max # <<>> THEN filter(i3, atMost) ELSE i3

applyFilters(allItems, state) ==
    LET q == toLowerCase(trim(state.q))
        matchesText ==
            {it \in Range(allItems) :
                \/ includes(toLowerCase(prop(it, "name").v), q)
                \/ includes(toLowerCase(prop(it, "description").v), q)}
        i1 == IF q # <<>> THEN filter(allItems, matchesText) ELSE allItems
        cats == lowerSet(state.categories)
        inCats == {it \in Range(i1) : toLowerCase(prop(it, "category").v) \in cats}
        i2 == IF Len(state.categories) # 0 THEN filter(i1, inCats) ELSE i1
        i4 == byPrice(i2, state)
        inStock == {it \in Range(i4) : prop(it, "inStock").v}
        i5 == IF state.inStockOnly THEN filter(i4, inStock) ELSE i4
    IN  IF state.sort \in SortModes THEN sortItems(i5, state.sort) ELSE i5

\* Items of the model's datasets.
Item(id, name, description, category, price, inStock, createdAt) ==
    Obj([id |-> Str(id), name |-> Str(name), description |-> Str(description),
         category |-> Str(category), price |-> Num(price), currency |-> Str(<<"U">>),
         inStock |-> Bool(inStock), tags |-> Arr(<<>>), image |-> Str(<<>>),
         createdAt |-> Str(createdAt)])

Item1 == Item(<<"1">>, <<"A", "b">>, <<"c">>, <<"A">>, 5, TRUE, <<"2", "0", "2", "1">>)
Item2 == Item(<<"2">>, <<"b">>, <<"a", " ", "b">>, <<"B">>, 10, FALSE, <<"2", "0", "2", "3">>)
Item3 == Item(<<"3">>, <<"C">>, <<>>, <<"a">>, 12, TRUE, <<"2", "0", "2", "2">>)
Item4 == Item(<<"4">>, <<"a", "b">>, <<>>, <<"B">>, 3, TRUE, <<"2", "0", "2", "1">>)

(***************************************************************************)
(* The application before init() has run (module-level initialisers)       *)
(***************************************************************************)
NotRendered == [rendered |-> FALSE, items |-> <<>>]

\* The controls as the page delivers them: empty inputs, nothing checked,
\* the first sort option selected, no category option yet.
InitialControls ==
    [q |-> <<>>, selected |-> {}, priceMin |-> <<>>, priceMax |-> <<>>,
     inStockOnly |-> FALSE, sort |-> "price_asc"]

AppIdle ==
    /\ pc = "start"
    /\ INVENTORY = EmptyInventory
    /\ State = defaultState
    /\ controls = InitialControls
    /\ options = <<>>
    /\ url = EmptyQuery
    /\ grid = NotRendered
    /\ errors = <<>>
    /\ fetches = 0
    /\ response = [kind |-> "network", data |-> Null]
    /\ bound = FALSE
    /\ ctrlFromState = FALSE
    /\ timers = {}
    /\ t = 0
    /\ lastEvent = "none"
    /\ ranNow = FALSE
    /\ sinceReset = FALSE
    /\ burstRuns = 0
    /\ burstLen = 0
    /\ quiet = 0

\* All sequences over S of length at most n.
SeqsUpTo(S, n) == UNION {[1..k -> S] : k \in 0..n}

(***************************************************************************)
(* The state codec on bounded inputs                                       *)
(***************************************************************************)
MaxCats == 2

CategoryNames == {<<"A">>, <<"B">>, <<"A", ",", "B">>}

\* Normalized filter states: every field present, price bounds numeric or
\* empty, the sort one of the five modes, categories any list of names.
NormalStates ==
    [q : {<<>>, <<"a">>, <<"a", " ", "b">>},
     categories : SeqsUpTo(CategoryNames, MaxCats),
     priceMin : {<<>>, <<"5">>, <<"1", "0">>},
     priceMax : {<<>>, <<"5">>},
     inStockOnly : BOOLEAN,
     sort : SortModes]

\* Query strings a user may open the page with.
Queries ==
    [q : {<<>>, <<<<"a">>>>},
     cat : {<<>>, << <<"A", ",", ",", "B">> >>, << <<>> >>},
     min : {<<>>, << <<"5", "a">> >>},
     max : {<<>>},
     stock : {<<>>, << <<"1">> >>, << <<"0">> >>, << <<"1", "1">> >>},
     sort : {<<>>, <<"newest">>, <<"bogus">>, <<"">>, <<"price_asc">>},
     foo : {<<>>, << <<"x">> >>}]

CodecInit ==
    /\ AppIdle
    /\ step = "input"
    /\ res = <<>>
    /\ arg \in {[kind |-> "state", state |-> s, search |-> EmptyQuery] : s \in NormalStates}
            \cup {[kind |-> "search", state |-> defaultState, search |-> u] : u \in Queries}

Encode ==
    /\ step = "input" /\ arg.kind = "state"
    /\ res' = <<syncStateWithURL(arg.state)>>
    /\ step' = "encoded"
    /\ UNCHANGED <<arg, appVars>>

Decode ==
    /\ step = "encoded"
    /\ res' = Append(res, readStateFromURL(res[1]))
    /\ step' = "decoded"
    /\ UNCHANGED <<arg, appVars>>

ReadURL ==
    /\ step = "input" /\ arg.kind = "search"
    /\ res' = <<readStateFromURL(arg.search)>>
    /\ step' = "read"
    /\ UNCHANGED <<arg, appVars>>

CodecNext == Encode \/ Decode \/ ReadURL

CodecSpec == CodecInit /\ [][CodecNext]_vars

\* C1: for every normalized FilterState s, reading back what
\* syncStateWithURL wrote yields s, field by field.
C1_RoundTrip == step = "decoded" => res[2] = arg.state

\* The round trip on the states whose category names hold no comma.
CodecRoundTripWithoutComma ==
    (step = "decoded"
        /\ \A i \in 1..Len(arg.state.categories) :
                ~includes(arg.state.categories[i], <<",">>))
    => res[2] = arg.state

FilterStateFields == {"q", "categories", "priceMin", "priceMax", "inStockOnly", "sort"}

\* C6: readStateFromURL returns a fully populated FilterState whose sort is
\* one of the five modes (any other sort parameter leaves the default), and
\* whose stock flag is true only when the stock parameter is exactly "1".
C6_DecodedStateWellFormed ==
    step = "read" =>
        /\ DOMAIN res[1] = FilterStateFields
        /\ res[1].sort \in SortModes
        /\ (has(arg.search, "sort") /\ get(arg.search, "sort") \notin SortModes
                => res[1].sort = defaultState.sort)
        /\ res[1].inStockOnly
                = (has(arg.search, "stock") /\ get(arg.search, "stock") = <<"1">>)

\* What does hold of the decoder: everything above but the sort's range.
DecodedStateButSort ==
    step = "read" =>
        /\ DOMAIN res[1] = FilterStateFields
        /\ res[1].inStockOnly
                = (has(arg.search, "stock") /\ get(arg.search, "stock") = <<"1">>)
        /\ res[1].sort = IF has(arg.search, "sort") THEN get(arg.search, "sort")
                         ELSE defaultState.sort

(***************************************************************************)
(* The schema validator on bounded documents                               *)
(***************************************************************************)
MaxDocItems == 2

\* obj without its property k.
without(obj, k) == Obj([j \in DOMAIN obj.v \ {k} |-> obj.v[j]])

\* obj with its property k set to x.
with(obj, k, x) == Obj([j \in DOMAIN obj.v \cup {k} |-> IF j = k THEN x ELSE obj.v[j]])

\* A value that fails the check chk: the property missing, or of another type.
wrongValues(chk) ==
    IF chk[2] = "number" THEN {Str(<<"5">>), Null} ELSE {Num(5), Null}

FieldNames == {ItemChecks[k][1] : k \in 1..Len(ItemChecks)}

\* Items a fetched document may hold: a valid one, items with one property
\* missing or of the wrong type, items with two of them wrong, and values
\* that are no objects at all.
DocItems ==
    {Item1, Null, Num(5), Obj(<<>>)}
    \cup {without(Item1, f) : f \in FieldNames}
    \cup UNION {{with(Item1, ItemChecks[k][1], x) : x \in wrongValues(ItemChecks[k])}
                    : k \in 1..Len(ItemChecks)}
    \cup {without(without(Item1, "price"), "name"), without(without(Item1, "tags"), "image")}

GoodMeta == Obj([lastUpdated |-> Str(<<"2", "0", "2", "4">>)])

Metas ==
    {GoodMeta, Undefined, Null, Num(0), Str(<<"x">>), Obj(<<>>),
     Obj([lastUpdated |-> Num(5)]), Obj([lastUpdated |-> Null])}

\* An object document with the given items and meta properties; Undefined
\* stands for a property the document does not have.
Doc(items, meta) ==
    LET d1 == IF items = Undefined THEN Obj(<<>>) ELSE with(Obj(<<>>), "items", items)
    IN  IF meta = Undefined THEN d1 ELSE with(d1, "meta", meta)

Docs ==
    {Null, Num(5), Str(<<"x">>), Bool(FALSE), Arr(<<>>)}
    \cup {Doc(items, meta) : items \in {Undefined, Null, Str(<<"x">>), Obj(<<>>)},
                             meta \in Metas}
    \cup {Doc(Arr(list), meta) : list \in SeqsUpTo({Item1, Null}, 1), meta \in Metas}
    \cup {Doc(Arr(list), GoodMeta) : list \in SeqsUpTo(DocItems, MaxDocItems)}

ValidateInit ==
    /\ AppIdle
    /\ step = "input"
    /\ res = <<>>
    /\ arg \in Docs

Validate ==
    /\ step = "input"
    /\ res' = <<validateSchema(arg)>>
    /\ step' = "validated"
    /\ UNCHANGED <<arg, appVars>>

ValidateNext == Validate

ValidateSpec == ValidateInit /\ [][ValidateNext]_vars

\* The declared shape, stated without the validator: a JavaScript object at
\* the root, an array of items, a string meta.lastUpdated, and for item i
\* (0-based) property f of its declared type.
hasType(x, ty) == IF ty = "array" THEN x.t = "array" ELSE x.t = ty

rootIsObject(d) == d.t \in {"object", "array"}

itemsIsArray(d) == d.t = "object" /\ "items" \in DOMAIN d.v /\ d.v.items.t = "array"

metaIsDated(d) ==
    /\ d.t = "object" /\ "meta" \in DOMAIN d.v
    /\ d.v.meta.t = "object" /\ "lastUpdated" \in DOMAIN d.v.meta.v
    /\ d.v.meta.v.lastUpdated.t = "string"

fieldDeclared(it, k) ==
    /\ it.t = "object" /\ ItemChecks[k][1] \in DOMAIN it.v
    /\ hasType(it.v[ItemChecks[k][1]], ItemChecks[k][2])

\* The failing (item, check) pairs of d, and the first of them in the
\* order of the items and, within an item, of the checks.
offences(d) ==
    {p \in (1..Len(d.v.items.v)) \X (1..Len(ItemChecks)) :
        ~fieldDeclared(d.v.items.v[p[1]], p[2])}

before(p, r) == p[1] < r[1] \/ (p[1] = r[1] /\ p[2] <= r[2])

firstOffence(d) ==
    IF ~rootIsObject(d) THEN <<"root">>
    ELSE IF ~itemsIsArray(d) THEN <<"items">>
    ELSE IF ~metaIsDated(d) THEN <<"meta.lastUpdated">>
    ELSE IF offences(d) = {} THEN <<>>
    ELSE LET p == CHOOSE p \in offences(d) : \A r \in offences(d) : before(p, r)
         IN  <<ItemChecks[p[2]][1], p[1] - 1>>

\* C4: validateSchema returns "" only for a document of the declared shape,
\* and otherwise returns the message of the first failing check in the fixed
\* order, with the item's index.
C4_FirstOffenceReported ==
    step = "validated" => ~res[1].threw /\ res[1].value = firstOffence(arg)

\* What does hold: the same, whenever the validator returns at all; and it
\* fails to return exactly when the first offending item is null.
ValidatorReportsFirstOffenceOrThrows ==
    step = "validated" =>
        /\ ~res[1].threw => res[1].value = firstOffence(arg)
        /\ res[1].threw =>
              /\ Len(firstOffence(arg)) = 2
              /\ arg.v.items.v[firstOffence(arg)[2] + 1] = Null

(***************************************************************************)
(* The filter/sort engine on bounded inputs                                *)
(***************************************************************************)
MaxItems == 2

ItemPool == {Item1, Item2, Item3, Item4}

FilterStates ==
    [q : {<<>>, <<" ", "A", " ">>},
     categories : {<<>>, << <<"a">> >>, << <<"B">>, <<"Z">> >>},
     priceMin : {<<>>, <<"5">>, <<"5", "a">>, <<"a">>},
     priceMax : {<<>>, <<"1", "0">>, <<"a", "5">>},
     inStockOnly : BOOLEAN,
     sort : SortModes \cup {"bogus"}]

FilterInit ==
    /\ AppIdle
    /\ step = "input"
    /\ res = <<>>
    /\ arg \in [items : SeqsUpTo(ItemPool, MaxItems), state : FilterStates]

Apply ==
    /\ step = "input"
    /\ res' = <<applyFilters(arg.items, arg.state)>>
    /\ step' = "applied"
    /\ UNCHANGED <<arg, appVars>>

ApplyAgain ==
    /\ step = "applied"
    /\ res' = Append(res, applyFilters(res[1], arg.state))
    /\ step' = "reapplied"
    /\ UNCHANGED <<arg, appVars>>

FilterNext == Apply \/ ApplyAgain

FilterSpec == FilterInit /\ [][FilterNext]_vars

\* The filters other than the price bounds, stated on one item.
passesOthers(it, state) ==
    LET q == toLowerCase(trim(state.q))
    IN  /\ q # <<>> => \/ includes(toLowerCase(it.v.name.v), q)
                       \/ includes(toLowerCase(it.v.description.v), q)
        /\ state.categories # <<>> =>
              \E i \in 1..Len(state.categories) :
                  toLowerCase(state.categories[i]) = toLowerCase(it.v.category.v)
        /\ state.inStockOnly => it.v.inStock.v

\* A bound as the claim reads it: a numeric string is its number, an empty
\* or non-numeric string is no bound. Numeric is what isNaN says of the
\* string, as in syncStateWithURL.
claimedBound(s) == IF s = <<>> \/ isNaN(s) THEN <<>> ELSE ToNumber(s)

withinClaimed(it, state) ==
    LET lo == claimedBound(state.priceMin)
        hi == claimedBound(state.priceMax)
    IN  /\ lo # <<>> => lo[1] <= it.v.price.v
        /\ hi # <<>> => it.v.price.v <= hi[1]

\* C5: the result holds exactly the items with lo <= price <= hi that pass
\* the other filters, where an empty or non-numeric bound removes no item.
C5_PriceBounds ==
    step = "applied" =>
        Range(res[1]) = {it \in Range(arg.items) :
                            passesOthers(it, arg.state) /\ withinClaimed(it, arg.state)}

\* What does hold: the same with each bound read by parseFloat, which
\* takes the numeric prefix of a string such as "5a".
withinParsed(it, state) ==
    LET lo == parseFloat(state.priceMin)
        hi == parseFloat(state.priceMax)
    IN  /\ lo # <<>> => lo[1] <= it.v.price.v
        /\ hi # <<>> => it.v.price.v <= hi[1]

PriceBoundsAsParsed ==
    step = "applied" =>
        Range(res[1]) = {it \in Range(arg.items) :
                            passesOthers(it, arg.state) /\ withinParsed(it, arg.state)}

\* C7: filtering twice with the same state yields the same set of items as
\* filtering once, and applyFilters returns no item that is not in its input.
C7_FilterIdempotent ==
    /\ step \in {"applied", "reapplied"} => Range(res[1]) \subseteq Range(arg.items)
    /\ step = "reapplied" =>
          /\ Range(res[2]) = Range(res[1])
          /\ Len(res[2]) = Len(res[1])

\* C7's case: a filter removed an item, kept another, and the result was
\* filtered again.
C7_Witness ==
    /\ step = "reapplied"
    /\ res[1] # <<>>
    /\ Len(res[1]) < Len(arg.items)
    /\ arg.state.priceMin # <<>>

(***************************************************************************)
(* The application: loader, init(), controls, debounce, run, reset         *)
(***************************************************************************)
\* The longest burst of input events: once a debounced run is pending, at
\* most MaxBurst - 1 more input events arrive before it fires.
MaxBurst == 2

\* debounce(fn, wait = 300), called with 300.
Wait == 300

\* Time advances in steps of half the wait.
TickMs == Wait \div 2

GoodDoc == Doc(Arr(<<Item2, Item1, Item4>>), GoodMeta)

\* What the fetch of data/inventory.json may produce: a network error, a
\* response that is not ok, a body that is no JSON, or a parsed document.
FetchOutcomes ==
    {[kind |-> k, data |-> Null] : k \in {"network", "http", "parse"}}
    \cup {[kind |-> "data", data |-> d] :
            d \in {GoodDoc,
                   Doc(Arr(<<>>), GoodMeta),
                   Doc(Arr(<<Item1, without(Item1, "price")>>), GoodMeta),
                   Doc(Arr(<<Item1, Null>>), GoodMeta),
                   Doc(Arr(<<Item1>>), Undefined),
                   Null}}

\* Query strings the page is opened with.
InitialQueries ==
    {EmptyQuery,
     set(EmptyQuery, "q", <<"a">>),
     set(EmptyQuery, "cat", <<"B">>),
     set(set(EmptyQuery, "cat", <<"Z">>), "sort", "bogus"),
     set(set(EmptyQuery, "min", <<"5", "a">>), "stock", <<"1">>),
     set(set(EmptyQuery, "sort", "newest"), "foo", <<"x">>)}

Init ==
    /\ pc = "start"
    /\ INVENTORY = EmptyInventory
    /\ State = defaultState
    /\ controls = InitialControls
    /\ options = <<>>
    /\ url \in InitialQueries
    /\ grid = NotRendered
    /\ errors = <<>>
    /\ fetches = 0
    /\ response \in FetchOutcomes
    /\ bound = FALSE
    /\ ctrlFromState = FALSE
    /\ timers = {}
    /\ t = 0
    /\ lastEvent = "none"
    /\ ranNow = FALSE
    /\ sinceReset = FALSE
    /\ burstRuns = 0
    /\ burstLen = 0
    /\ quiet = Wait
    /\ arg = <<>> /\ res = <<>> /\ step = "idle"

\* The history variables after a step that is no user event and does not
\* execute run.
Passive(event) ==
    /\ lastEvent' = event
    /\ ranNow' = FALSE
    /\ UNCHANGED <<sinceReset, burstRuns, burstLen, quiet, pureVars>>

---------------------------------------------------------------------------
\* loadData: the catch block.
catchBlock == [inventory |-> EmptyInventory, errors |-> <<"Failed to load">>]

\* A loader that reports a schema error and keeps the rejected document.
afterJsonKeepsData(data) ==
    LET error == validateSchema(data)
    IN  IF error.threw THEN [inventory |-> EmptyInventory, errors |-> <<"Failed to load">>]
        ELSE IF error.value # <<>>
             THEN [inventory |-> data, errors |-> <<"Invalid inventory schema">>]
        ELSE [inventory |-> data, errors |-> <<>>]

\* loadData from the parsed document on: validation, then either branch; a
\* throw of validateSchema lands in the catch block.
afterJson(data) ==
    LET error == validateSchema(data)
    IN  IF error.threw THEN catchBlock
        ELSE IF error.value # <<>>
             THEN [inventory |-> EmptyInventory, errors |-> <<"Invalid inventory schema">>]
        ELSE [inventory |-> data, errors |-> <<>>]

\* init() up to its await: loadData() calls fetch.
LoadFetch ==
    /\ pc = "start"
    /\ fetches' = fetches + 1
    /\ pc' = "awaitFetch"
    /\ Passive("fetch")
    /\ UNCHANGED <<INVENTORY, State, controls, options, url, grid, errors, response,
                   bound, ctrlFromState, timers, t>>

\* The fetch settles: rejected or not ok goes to the catch block, an ok
\* response goes on to res.json().
FetchSettles ==
    /\ pc = "awaitFetch"
    /\ IF response.kind \in {"network", "http"}
       THEN /\ INVENTORY' = catchBlock.inventory
            /\ errors' = errors \o catchBlock.errors
            /\ pc' = "loaded"
       ELSE /\ pc' = "awaitJson"
            /\ UNCHANGED <<INVENTORY, errors>>
    /\ Passive("response")
    /\ UNCHANGED <<State, controls, options, url, grid, fetches, response, bound,
                   ctrlFromState, timers, t>>

\* res.json() settles: a parse error goes to the catch block.
JsonSettles ==
    /\ pc = "awaitJson"
    /\ LET r == IF response.kind = "parse" THEN catchBlock
                ELSE afterJson(response.data)
       IN  /\ INVENTORY' = r.inventory
           /\ errors' = errors \o r.errors
    /\ pc' = "loaded"
    /\ Passive("json")
    /\ UNCHANGED <<State, controls, options, url, grid, fetches, response, bound,
                   ctrlFromState, timers, t>>

---------------------------------------------------------------------------
inventoryItems == INVENTORY.v.items.v

\* Array.from(new Set(items.map(i => i.category))): first occurrences.
uniqueCategories(items) ==
    LET seen[i \in 0..Len(items)] ==
            IF i = 0 THEN <<>>
            ELSE IF \E j \in 1..Len(seen[i - 1]) :
                        seen[i - 1][j] = prop(items[i], "category").v
                 THEN seen[i - 1]
            ELSE Append(seen[i - 1], prop(items[i], "category").v)
    IN  seen[Len(items)]

RECURSIVE insertName(_, _)
insertName(sorted, x) ==
    IF sorted = <<>> THEN <<x>>
    ELSE IF localeCompare(Head(sorted), x) > 0 THEN <<x>> \o sorted
    ELSE <<Head(sorted)>> \o insertName(Tail(sorted), x)

RECURSIVE sortNames(_)
sortNames(names) ==
    IF names = <<>> THEN <<>>
    ELSE insertName(sortNames(SubSeq(names, 1, Len(names) - 1)), names[Len(names)])

\* The option values renderCategoriesSelect leaves in #categoryFilter.
renderCategoriesSelect(items) == sortNames(uniqueCategories(items))

\* The options of #sortSelect, which the page declares.
SortOptions == SortModes

\* Assigning select.value: the option of that value is selected, and with
\* no such option none is, and the select's value reads "".
selectValue(v) == IF v \in SortOptions THEN v ELSE ""

\* The controls after setControlsFromState with STATE = state.
setControlsFromState(state, opts) ==
    [q |-> state.q,
     priceMin |-> state.priceMin,
     priceMax |-> state.priceMax,
     inStockOnly |-> state.inStockOnly,
     sort |-> selectValue(state.sort),
     selected |-> {o \in Range(opts) : o \in Range(state.categories)}]

\* The STATE readStateFromControls assigns.
readStateFromControls(ctrl, opts) ==
    [q |-> ctrl.q,
     categories |-> SelectSeq(opts, LAMBDA o : o \in ctrl.selected),
     priceMin |-> ctrl.priceMin,
     priceMax |-> ctrl.priceMax,
     inStockOnly |-> ctrl.inStockOnly,
     sort |-> ctrl.sort]

renderGrid(items) == [rendered |-> TRUE, items |-> items]

\* A run that filters before it reads the controls.
runStale(ctrl) ==
    /\ grid' = renderGrid(applyFilters(inventoryItems, State))
    /\ State' = readStateFromControls(ctrl, options)
    /\ url' = syncStateWithURL(State')
    /\ ranNow' = TRUE

\* run() with the controls holding ctrl.
run(ctrl) ==
    /\ State' = readStateFromControls(ctrl, options)
    /\ url' = syncStateWithURL(State')
    /\ grid' = renderGrid(applyFilters(inventoryItems, State'))
    /\ ranNow' = TRUE

---------------------------------------------------------------------------
\* init() after its await, statement by statement; no event is handled in
\* between, because the statements run in one task.
InitCategories ==
    /\ pc = "loaded"
    /\ options' = renderCategoriesSelect(inventoryItems)
    /\ controls' = [controls EXCEPT !.selected = {}]
    /\ pc' = "categoriesRendered"
    /\ Passive("init")
    /\ UNCHANGED <<INVENTORY, State, url, grid, errors, fetches, response, bound,
                   ctrlFromState, timers, t>>

InitReadURL ==
    /\ pc = "categoriesRendered"
    /\ State' = readStateFromURL(url)
    /\ pc' = "stateRead"
    /\ Passive("init")
    /\ UNCHANGED <<INVENTORY, controls, options, url, grid, errors, fetches, response,
                   bound, ctrlFromState, timers, t>>

InitSetControls ==
    /\ pc = "stateRead"
    /\ controls' = setControlsFromState(State, options)
    /\ ctrlFromState' = TRUE
    /\ pc' = "controlsSet"
    /\ Passive("init")
    /\ UNCHANGED <<INVENTORY, State, options, url, grid, errors, fetches, response,
                   bound, timers, t>>

InitBind ==
    /\ pc = "controlsSet"
    /\ bound' = TRUE
    /\ pc' = "bound"
    /\ Passive("init")
    /\ UNCHANGED <<INVENTORY, State, controls, options, url, grid, errors, fetches,
                   response, ctrlFromState, timers, t>>

\* A first paint that reads the state back from the controls.
firstPaintFromControls == readStateFromControls(controls, options)

\* The state init() filters with for the first paint.
firstPaintState == State

InitFirstPaint ==
    /\ pc = "bound"
    /\ grid' = renderGrid(applyFilters(inventoryItems, firstPaintState))
    /\ pc' = "done"
    /\ Passive("firstPaint")
    /\ UNCHANGED <<INVENTORY, State, controls, options, url, errors, fetches, response,
                   bound, ctrlFromState, timers, t>>

---------------------------------------------------------------------------
\* Events reach the page whenever no task is running: while init() awaits,
\* and once it is done.
Idle == pc \in {"awaitFetch", "awaitJson", "done"}

\* Values a user types into the debounced inputs.
Typed ==
    [q |-> {<<>>, <<"a">>}, priceMin |-> {<<>>, <<"5">>}, priceMax |-> {<<>>, <<"1", "0">>}]

\* A debounce that never clears the pending timer.
debouncedNoClear(live, handle, id) == live \cup {[id |-> id, left |-> Wait]}

\* The timers after a call of the function debounce returns: the pending
\* one is cleared and a new one, id, is set.
debounced(live, handle, id) ==
    {x \in live : x.id # handle} \cup {[id |-> id, left |-> Wait]}

\* The id setTimeout returns: one that no live timer has.
freshId == CHOOSE i \in 1..(Cardinality(timers) + 1) : \A x \in timers : x.id # i

\* The burst counters after a step that is no input event and no timer: a
\* burst whose run has fired is over.
BurstOver ==
    IF timers = {} THEN burstRuns' = 0 /\ burstLen' = 0
    ELSE UNCHANGED <<burstRuns, burstLen>>

\* An input event on #searchInput, #priceMin or #priceMax: runDebounced.
InputEvent ==
    /\ Idle
    /\ \E f \in DOMAIN Typed : \E v \in Typed[f] :
        /\ v # controls[f]
        /\ controls' = [controls EXCEPT ![f] = v]
    /\ IF bound
       THEN /\ timers # {} => burstLen < MaxBurst
            /\ timers' = debounced(timers, t, freshId)
            /\ t' = freshId
            /\ burstRuns' = IF timers = {} THEN 0 ELSE burstRuns
            /\ burstLen' = IF timers = {} THEN 1 ELSE burstLen + 1
            /\ quiet' = 0
       ELSE UNCHANGED <<timers, t, burstRuns, burstLen, quiet>>
    /\ lastEvent' = "input"
    /\ ranNow' = FALSE
    /\ sinceReset' = FALSE
    /\ UNCHANGED <<pc, INVENTORY, State, options, url, grid, errors, fetches, response,
                   bound, ctrlFromState, pureVars>>

\* The sort options a user picks.
PickedSorts == {"price_asc", "name_desc", "newest"}

\* What a change event leaves in the controls: a category option toggled,
\* the stock box toggled, or another sort option chosen.
Changed(ctrl) ==
    {[ctrl EXCEPT !.selected = (ctrl.selected \ {o}) \cup ({o} \ ctrl.selected)] :
        o \in Range(options)}
    \cup {[ctrl EXCEPT !.inStockOnly = ~ctrl.inStockOnly]}
    \cup {[ctrl EXCEPT !.sort = m] : m \in (SortOptions \cap PickedSorts) \ {ctrl.sort}}

\* A change event on #categoryFilter, #inStockOnly or #sortSelect: run.
ChangeEvent ==
    /\ Idle
    /\ \E c \in Changed(controls) : controls' = c
    /\ IF bound THEN run(controls')
       ELSE ranNow' = FALSE /\ UNCHANGED <<State, url, grid>>
    /\ lastEvent' = "change"
    /\ sinceReset' = FALSE
    /\ BurstOver
    /\ UNCHANGED <<pc, INVENTORY, options, errors, fetches, response, bound,
                   ctrlFromState, timers, t, quiet, pureVars>>

\* A reset that assigns STATE and runs, without rewriting the controls.
resetControlsNoSet ==
    /\ controls' = controls
    /\ run(controls')

\* resetControls: the controls it leaves, and its run.
resetControls ==
    /\ controls' = setControlsFromState(defaultState, options)
    /\ run(controls')

\* A click on #resetBtn, or on #emptyResetBtn of the empty grid.
ResetClick ==
    /\ pc = "done" /\ bound
    /\ resetControls
    /\ lastEvent' = "reset"
    /\ sinceReset' = TRUE
    /\ BurstOver
    /\ UNCHANGED <<pc, INVENTORY, options, errors, fetches, response, bound,
                   ctrlFromState, timers, t, quiet, pureVars>>

\* The event loop takes a due timer off the timer table.
TimerDue == \E x \in timers : x.left = 0 /\ timers' = timers \ {x}

\* A timer set by debounce expires and its callback, run, is called.
TimerFires ==
    /\ Idle
    /\ TimerDue
    /\ run(controls)
    /\ lastEvent' = "timer"
    /\ burstRuns' = burstRuns + 1
    /\ UNCHANGED <<pc, INVENTORY, controls, options, errors, fetches, response, bound,
                   ctrlFromState, t, sinceReset, burstLen, quiet, pureVars>>

Least(a, b) == IF a < b THEN a ELSE b

\* Time passes, but not past a timer that is due.
Tick ==
    /\ Idle
    /\ timers # {}
    /\ \A x \in timers : x.left > 0
    /\ timers' = {[x EXCEPT !.left = x.left - Least(x.left, TickMs)] : x \in timers}
    /\ quiet' = Least(Wait, quiet + TickMs)
    /\ lastEvent' = "tick"
    /\ ranNow' = FALSE
    /\ UNCHANGED <<pc, INVENTORY, State, controls, options, url, grid, errors, fetches,
                   response, bound, ctrlFromState, t, sinceReset, burstRuns,
                   burstLen, pureVars>>

Next ==
    \/ LoadFetch \/ FetchSettles \/ JsonSettles
    \/ InitCategories \/ InitReadURL \/ InitSetControls \/ InitBind \/ InitFirstPaint
    \/ InputEvent \/ ChangeEvent \/ ResetClick \/ TimerFires \/ Tick

Spec == Init /\ [][Next]_vars

\* The debounce in time: the page opened without a query, the inventory
\* loads, time passes and the event loop runs the callback of a due timer.
LiveInit == Init /\ url = EmptyQuery /\ response = [kind |-> "data", data |-> GoodDoc]

\* TimerFires is the only step that takes a due timer off the table and
\* timers are live only when init() is done, so the fairness on TimerDue
\* is weak fairness of TimerFires.
LiveSpec == LiveInit /\ [][Next]_vars /\ WF_vars(Tick) /\ WF_timers(TimerDue)

---------------------------------------------------------------------------
\* C2: once resetControls has run, and until the user changes a control
\* again, STATE is defaultState and the query string is empty, also after a
\* debounced run that was pending at the reset has fired.
C2_ResetRestoresDefaults ==
    sinceReset => State = defaultState /\ url = EmptyQuery

\* C2's case: after some control changes, a reset, and then the debounced
\* run that was pending at the reset.
C2_Witness ==
    sinceReset /\ lastEvent = "timer" /\ burstLen >= 2

Loading == pc \in {"start", "awaitFetch", "awaitJson"}

\* The load succeeded: the fetch produced a document of the declared shape.
loadSucceeded == response.kind = "data" /\ firstOffence(response.data) = <<>>

\* C3: loadData fetches at most once; when the fetch fails or the document
\* is rejected, showError is called exactly once and INVENTORY is the empty
\* inventory; on success INVENTORY is the fetched document and showError is
\* not called.
C3_LoaderOutcome ==
    /\ fetches <= 1
    /\ Loading => INVENTORY = EmptyInventory /\ errors = <<>>
    /\ ~Loading =>
          IF loadSucceeded
          THEN INVENTORY = response.data /\ errors = <<>>
          ELSE INVENTORY = EmptyInventory /\ Len(errors) = 1

\* C3's case: a document with a bad item was fetched and rejected, and the
\* application went on to its first paint.
C3_Witness ==
    /\ pc = "done"
    /\ response.kind = "data"
    /\ Len(firstOffence(response.data)) = 2
    /\ Len(errors) = 1

Pending == timers # {}

C8_Safe ==
    /\ Cardinality(timers) <= 1
    /\ burstRuns <= 1
    /\ lastEvent = "timer" =>
          ranNow /\ timers = {} /\ burstRuns = 1 /\ quiet >= Wait
    /\ (lastEvent = "input" /\ bound) =>
          ~ranNow /\ timers = {[id |-> t, left |-> Wait]}
    /\ (lastEvent = "change" /\ bound) => ranNow

\* C8: an input event replaces the pending debounced run by a new one, so a
\* burst of input events causes one execution of run, a full wait after
\* its last event, and that execution does come; change events run at once.
C8_DebounceCoalesces == []C8_Safe /\ (Pending ~> lastEvent = "timer")

\* C8's case: the debounced run of a burst of several input events.
C8_Witness == lastEvent = "timer" /\ burstLen >= 2 /\ burstRuns = 1

\* C9: nothing is rendered and run is not executed while loadData is
\* pending; the first paint filters with the state decoded from the URL;
\* and the controls are set from that state before the handlers are bound.
C9_InitOrder ==
    /\ Loading => ~grid.rendered /\ ~ranNow /\ State = defaultState
    /\ bound => ctrlFromState
    /\ pc = "bound" => controls = setControlsFromState(readStateFromURL(url), options)
    /\ lastEvent = "firstPaint" =>
          /\ State = readStateFromURL(url)
          /\ grid = renderGrid(applyFilters(inventoryItems, readStateFromURL(url)))

\* C9's case: the first paint of a loaded inventory, for a query string
\* whose state the controls cannot hold (an unknown category or sort).
C9_Witness ==
    /\ lastEvent = "firstPaint"
    /\ inventoryItems # <<>>
    /\ readStateFromControls(controls, options) # State

\* C10: right after run() has executed, STATE is what the controls hold, the
\* query string encodes STATE, and the grid shows
\* applyFilters(INVENTORY.items, STATE); the step changed INVENTORY not at
\* all, and the controls only by what the event or the reset itself did.
C10_RunSynchronizes ==
    [][ranNow' =>
          /\ State' = readStateFromControls(controls', options')
          /\ url' = syncStateWithURL(State')
          /\ grid' = renderGrid(applyFilters(INVENTORY'.v.items.v, State'))
          /\ INVENTORY' = INVENTORY
          /\ options' = options
          /\ lastEvent' = "timer" => controls' = controls
          /\ lastEvent' = "reset" => controls' = setControlsFromState(defaultState, options)
          /\ lastEvent' = "change" => controls' \in Changed(controls)]_vars

\* C10's case: a debounced run on a loaded inventory that left a filtered,
\* non-empty grid and a non-empty query string.
C10_Witness ==
    /\ ranNow /\ lastEvent = "timer"
    /\ grid.items # <<>>
    /\ Len(grid.items) < Len(inventoryItems)
    /\ url # EmptyQuery

====
